---- MODULE Spec2Model ----
(***************************************************************************)
(* A model of the waku-bindings node layer:                                *)
(*   - node/mod.rs        the typestate handle WakuNodeHandle<State>,      *)
(*                        the relay gate, connect's timeout, the           *)
(*                        store_query driver and the event bridge          *)
(*                        (set_event_callback, response_stream)            *)
(*   - node/management.rs the callback bridge of waku_new                  *)
(* The foreign engine (waku_sys) is the environment: every answer it can   *)
(* give is an input chosen with \E. Every async method is split at its     *)
(* await: the call, the engine's callback, and the poll that returns.      *)
(***************************************************************************)
EXTENDS Integers, Sequences, FiniteSets, TLC

\* ------------------------------------------------------------------ bounds
\* Futures of binding calls the caller holds at once, dropped ones the engine
\* has yet to answer included.
MaxInFlight == 2
\* Saturation of the ghost count of completed start->stop alternations.
MaxCycles == 2

\* Most page requests one store_query may issue in the model.
MaxReqs == 2
\* Most items on one page of a store response.
MaxPageLen == 2
\* Bridged calls in flight at once.
NCalls == 2
\* Most page requests of one store_query in the specification of the request
\* chain.
MaxChain == 3
\* Event sinks (streams and closures) one node registers in the model.
NSinks == 2
\* Events the engine fires in the model.
MaxEvents == 3

\* ------------------------------------------------------------ value domains
\* Option<T>: None is the empty tuple, Some(x) the one-element tuple.
None == << >>
Some(x) == << x >>

\* WakuNodeContext's empty sentinel (a null obj_ptr) and the pointers the
\* engine may hand out.
NULL_PTR == "null"
Handles == {"p1", "p2"}
\* The order in which the engine hands pointers out.
PtrNames == << "p1", "p2", "p3", "p4" >>

\* config.relay : Option<bool>
RelayOpts == {None, Some(FALSE), Some(TRUE)}
\* The configurations of the lifecycle without the relay methods.
LifeConfigs == {None, Some(TRUE)}

\* LibwakuResponse, as the trampoline delivers it to the closure.
Success == [tag |-> "Success", val |-> "v"]
Failure(m) == [tag |-> "Failure", val |-> m]
MissingCallback == [tag |-> "MissingCallback", val |-> ""]
ErrMsgs == {"e1", "e2"}
Responses == {Success, MissingCallback} \cup {Failure(m) : m \in ErrMsgs}
\* Result<T>, plus the two ways an async call does not return: a panic and a
\* future that has not completed.
Ok(v) == [kind |-> "Ok", val |-> v]
Err(m) == [kind |-> "Err", val |-> m]
Panic == [kind |-> "Panic", val |-> "callback is required"]
Pending == [kind |-> "Pending", val |-> ""]

\* Store messages and pagination cursors (MessageHash) are opaque tokens.
Items == {"a", "b", "c"}
Cursors == {"h1"}

RECURSIVE SeqsUpTo(_, _)
SeqsUpTo(S, n) ==
    IF n = 0 THEN {<< >>}
    ELSE LET shorter == SeqsUpTo(S, n - 1)
         IN  shorter \cup {Append(q, x) : q \in {t \in shorter : Len(t) = n - 1}, x \in S}

\* StoreResponse: a page of messages and an optional continuation cursor.
Page(ms, c) == [tag |-> "Page", messages |-> ms, cursor |-> c]
PagesUpTo(n) ==
    {Page(ms, c) : ms \in SeqsUpTo(Items, n), c \in {None} \cup {Some(h) : h \in Cursors}}
\* The pages of the pagination specification, and the item-free pages the
\* lifecycle specification lets the engine answer with.
AllPages == PagesUpTo(MaxPageLen)
BarePages == PagesUpTo(0)
\* The pages an answer to an abandoned request carries in the pagination
\* specification.
LatePages == PagesUpTo(1)
\* The pages of the specification of the request chain: short pages, two
\* cursors the engine may hand out in any order and repeat.
ChainCursors == {"h1", "h2"}
ChainPages ==
    {Page(ms, c) : ms \in SeqsUpTo(Items, 1),
                  c \in {None} \cup {Some(h) : h \in ChainCursors}}
\* No answer of the engine to a page request yet.
NoAnswer == [tag |-> "none", val |-> ""]

\* The caller's arguments of store_query other than the cursor.
StoreArgs ==
    { [pubsub_topic |-> None, content_topics |-> <<"ct">>, peer_addr |-> "peer",
       include_data |-> d, time_start |-> None, time_end |-> Some(9),
       timeout_millis |-> None] : d \in BOOLEAN }
\* Those of a query for whole messages, where the arguments are not the
\* subject.
DataArgs == {a \in StoreArgs : a.include_data}

\* std::time::Duration: whole seconds and the nanoseconds of the second begun.
Duration(secs, nanos) == [secs |-> secs, nanos |-> nanos]
\* i32::MAX, the largest timeout the foreign function takes.
i32_MAX == 2147483647
\* connect's timeout argument (Option<Duration>) with the millisecond count
\* the engine has to receive for it: absent and zero, below one millisecond,
\* small counts, the counts around i32::MAX, 2^32 milliseconds and beyond.
TimeoutCases ==
    { << None, 0 >>,
      << Some(Duration(0, 0)), 0 >>,
      << Some(Duration(0, 999999)), 0 >>,
      << Some(Duration(0, 1000000)), 1 >>,
      << Some(Duration(1, 500000000)), 1500 >>,
      << Some(Duration(2147483, 646999999)), 2147483646 >>,
      << Some(Duration(2147483, 647000000)), 2147483647 >>,
      << Some(Duration(2147483, 647999999)), 2147483647 >>,
      << Some(Duration(2147483, 648000000)), 2147483647 >>,
      << Some(Duration(2147484, 0)), 2147483647 >>,
      << Some(Duration(4294967, 296000000)), 2147483647 >>,
      << Some(Duration(4294968, 1)), 2147483647 >>,
      << Some(Duration(2000000000, 999999999)), 2147483647 >> }
Timeouts == {c[1] : c \in TimeoutCases}

RelayDisabledMsg == "Relay is disabled. Restart the waku node with Relay enabled to use this function."

RunningOnlyEngineOps ==
    { "waku_listen_addresses", "waku_connect", "waku_relay_publish",
      "waku_relay_subscribe", "waku_relay_unsubscribe", "waku_filter_subscribe",
      "waku_filter_unsubscribe", "waku_filter_unsubscribe_all",
      "waku_lightpush_publish", "waku_store_query" }

RelayEngineOps ==
    { "waku_relay_publish", "waku_relay_subscribe", "waku_relay_unsubscribe" }

\* ---------------------------------------------------------------- variables
VARIABLES
    tag,        \* the typestate of the handle the caller holds
    ptr,        \* ctx.obj_ptr
    config,     \* config.relay
    ret,        \* the binding call that was made or returned last and what it
                \* gave its caller, Pending before it returns: [op, res]
    said,       \* ghost: what the engine itself answered to that call when it
                \* returned, NoAnswer if nothing
    lastCall,   \* the engine's record of the last foreign call it received
    fl,         \* the binding calls in flight, per future: [name, op, p, cfg, st,
                \* ans, own, due, old]
    eng,        \* engine side, per pointer: "none", "live", "started" or "gone"
    inst,       \* ghost: the pointer and configuration set by new()
    cycles,     \* ghost: completed start->stop alternations, saturating
    conn_timeout, \* ghost: the timeout argument of the last connect
    conn_ms,    \* the timeoutMs the engine received with the last waku_connect
    ev_slot,    \* the context's event-callback slot: the sink it holds, 0 for none
    ev_kind,    \* sink s: "none", "stream" (response_stream) or "closure"
    ev_reg,     \* sink s: what waku_set_event_callback returned for it
    ev_chan,    \* stream s: the items in its channel
    ev_recv,    \* stream s: the items its consumer took; closure s: its calls
    ev_rx,      \* stream s: the consumer still holds the stream
    ev_ended,   \* stream s: the consumer was told the stream is complete
    ev_regs,    \* ghost: the sinks registered with success, in order
    ev_count,   \* producer p: the events it fired
    ev_fired,   \* ghost: the events fired: producer, number, registrations before
    sq_pc,      \* store_query: "idle", "sent", "answered" or "done"
    sq_args,    \* store_query: the caller's arguments
    sq_cursor,  \* store_query: the local cursor
    sq_messages,\* store_query: the local accumulator
    sq_reqs,    \* ghost: the StoreQueryRequests sent, in order
    sq_pages,   \* ghost: the pages the engine answered with, in order
    sq_answer,  \* what the callback wrote into the cell of the page request
    sq_due,     \* the engine has yet to answer the page request
    sq_ret,     \* what store_query returned
    b_pc,       \* bridged call c: "idle", "ffi", "await", "parked", "done", "dropped"
    b_op,       \* bridged call c: the foreign function it calls
    b_result,   \* bridged call c: the cell `result` of its frame
    b_permit,   \* bridged call c: its Notify holds a permit
    b_objptr,   \* bridged call c: what the foreign function returned
    b_out,      \* bridged call c: what the call gave its caller
    b_alive,    \* bridged call c: its frame (closure, cell, notify_clone) exists
    b_stale,    \* bridged call c: the calls gone before its frame was made whose
                \* closure the engine had yet to call
    e_plan,     \* engine: how often it will invoke the callback of call c
    e_sent,     \* ghost: the envelopes the engine passed to call c's callback
    deadWrites, \* ghost: calls whose callback ran on a freed frame
    strayed,    \* ghost: such a callback wrote into the frame of a live call
                \* or notified its task
    crashed     \* the process died of a write into freed memory

lifeVars == << tag, ptr, config, ret, said, lastCall, fl, eng, inst, cycles >>
storeVars == << sq_pc, sq_args, sq_cursor, sq_messages, sq_reqs, sq_pages,
               sq_answer, sq_due, sq_ret >>

bridgeVars == << b_pc, b_op, b_result, b_permit, b_objptr, b_out, b_alive, b_stale, e_plan,
                 e_sent, deadWrites, strayed, crashed >>
connVars == << conn_timeout, conn_ms >>
eventVars == << ev_slot, ev_kind, ev_reg, ev_chan, ev_recv, ev_rx, ev_ended,
               ev_regs, ev_count, ev_fired >>
\* What the lifecycle and store_query leave alone, and what the bridge does.
restVars == << bridgeVars, connVars, eventVars >>
nodeVars == << lifeVars, storeVars, connVars, eventVars >>

vars == << lifeVars, storeVars, bridgeVars, connVars, eventVars >>

\* The handle is a live value the caller can use.
LiveTags == {"Initialized", "Running"}
\* The handle value is not with the caller: torn down, dropped by a failed
\* transition or with the future it was moved into, lost in a panic, or
\* inside the suspended future of a method taking self.
DeadTags == {"Destroyed", "Dropped", "Panicked", "Moved"}

NoCall == [op |-> "none", ptr |-> NULL_PTR, tag |-> "NoNode", started |-> FALSE]
NoRet == [op |-> "none", res |-> Pending]

\* The futures of binding calls. An async method makes its foreign call on
\* its first poll ("sent") and is suspended until a callback wrote its cell
\* and notified it ("answered"); the next poll returns. `due` tells that the
\* engine has yet to answer the call, `own` what it answered. A future that
\* is gone, dropped or returned, before the engine answered leaves its call
\* with the engine
\* ("orphan"): the engine holds the address of a closure in a freed frame.
\* `old` names the calls suspended since before the frame was freed, by
\* their flight, store_query by StoreSlot: their frames are other memory.
Flights == DOMAIN fl
StoreSlot == 0
Idle == [name |-> "none", op |-> "none", p |-> NULL_PTR, cfg |-> None,
         st |-> "idle", ans |-> NoAnswer, own |-> NoAnswer, due |-> FALSE,
         old |-> {}]
FreeFlights == {s \in Flights : fl[s].st = "idle"}
NextFlight == CHOOSE s \in FreeFlights : \A t \in FreeFlights : s <= t
\* The caller holds the future of flight s.
Held(s) == fl[s].st \in {"sent", "answered"}
\* The methods taking self.
ConsumingNames == {"start", "stop", "waku_destroy"}

\* A future of a method taking &self holds a shared borrow of the handle: no
\* method taking self can be called until it completed or was dropped.
Borrowed == sq_pc \in {"sent", "answered"} \/ \E s \in Flights : Held(s)

\* ------------------------------------------------------------------- engine
\* The engine's view of the node behind pointer p.
NodeLive(p) == p \in Handles /\ eng[p] \in {"live", "started"}
NodeStarted(p) == p \in Handles /\ eng[p] = "started"
\* The same for the node new() gave the handle.
engLive == NodeLive(inst.ptr)
engStarted == NodeStarted(inst.ptr)

\* The envelope reports success: neither Failure nor MissingCallback.
Succeeded(r) == r.tag \notin {"Failure", "MissingCallback"}

\* The answers the engine can give to a foreign call, whatever the call:
\* the engine is not trusted.
EngineAnswers == {Success, MissingCallback, Failure("e1")}

\* The engine's own bookkeeping when it answers r to op on pointer p.
EngineEffect(op, p, r) ==
    eng' = IF ~Succeeded(r) \/ p \notin Handles THEN eng
           ELSE IF op = "waku_new" THEN [eng EXCEPT ![p] = "live"]
           ELSE IF ~NodeLive(p) THEN eng
           ELSE IF op = "waku_start" THEN [eng EXCEPT ![p] = "started"]
           ELSE IF op = "waku_stop" THEN [eng EXCEPT ![p] = "live"]
           ELSE IF op = "waku_destroy" THEN [eng EXCEPT ![p] = "gone"]
           ELSE eng

\* A foreign call reaches the engine.
ForeignCall(op, p) ==
    /\ ~crashed
    /\ lastCall' = [op |-> op, ptr |-> p, tag |-> tag, started |-> NodeStarted(p)]

\* The futures the caller holds, store_query's included.
HeldCount ==
    Cardinality({s \in Flights : Held(s)}) +
        IF sq_pc \in {"sent", "answered"} THEN 1 ELSE 0

\* The model can hold the future of one more call.
Room == HeldCount < Cardinality(Flights)

\* LibwakuResponse::default(): the cell before any callback wrote it.
LibwakuResponse_default == MissingCallback

\* The cell `result` in the frame of flight t.
Cell(t) == IF fl[t].st = "answered" THEN fl[t].ans ELSE LibwakuResponse_default

\* The flights f once the future of call k is gone: the next call in its
\* place has a new frame, which may be memory freed before.
Later(f, k) == [s \in DOMAIN f |-> [f[s] EXCEPT !.old = @ \ {k}]]

\* The calls suspended now, flight s apart.
Suspended(s) ==
    {t \in Flights \ {s} : Held(t)} \cup
        IF sq_pc \in {"sent", "answered"} THEN {StoreSlot} ELSE {}

\* `.await` on the bridged call: the future is suspended with its call at the
\* engine.
Suspend(name, op, p, cfg) ==
    /\ Room
    /\ FreeFlights # {}
    /\ ret' = [op |-> name, res |-> Pending]
    /\ said' = NoAnswer
    /\ fl' = [fl EXCEPT ![NextFlight] =
                 [name |-> name, op |-> op, p |-> p, cfg |-> cfg,
                  st |-> "sent", ans |-> NoAnswer, own |-> NoAnswer,
                  due |-> TRUE, old |-> {}]]

\* WakuNodeContext::new(obj_ptr): the context is the pointer it wraps.
WakuNodeContext(p) == p

\* handle_response / handle_no_response: what a bridged call returns for the
\* envelope its callback delivered.
Convert(r, v) ==
    IF r.tag = "MissingCallback" THEN Panic
    ELSE IF r.tag = "Failure" THEN Err(r.val)
    ELSE Ok(v)

handle_response(r) == Convert(r, r.val)

\* The match that ends waku_new. The faulty variant has no Failure arm.
waku_new_match_no_failure(result, obj_ptr) ==
    CASE result.tag = "MissingCallback" -> Panic
      [] OTHER -> Ok(WakuNodeContext(obj_ptr))

waku_new_match(result, obj_ptr) ==
    CASE result.tag = "MissingCallback" -> Panic
      [] result.tag = "Failure" -> Err(result.val)
      [] OTHER -> Ok(WakuNodeContext(obj_ptr))

\* The engine invokes the callback of flight s with its answer: the cell of
\* the suspended future holds it, the task is notified. Every invocation
\* assigns the cell, also one after another callback wrote it.
engine_callback(s) ==
    /\ ~crashed
    /\ Held(s)
    /\ fl[s].due
    /\ \E r \in EngineAnswers :
         /\ EngineEffect(fl[s].op, fl[s].p, r)
         /\ fl' = [fl EXCEPT ![s].st = "answered", ![s].ans = r,
                             ![s].own = r, ![s].due = FALSE]
    /\ UNCHANGED << tag, ptr, config, ret, said, lastCall, inst, cycles, storeVars,
                    restVars >>

\* What is left of flight s once its future is gone: nothing, the engine
\* answered it or never will; or its call, still with the engine.
Released(s) ==
    {Idle} \cup
        IF fl[s].due
        THEN {[fl[s] EXCEPT !.st = "orphan", !.cfg = None, !.ans = NoAnswer,
                            !.old = Suspended(s)]}
        ELSE {}

\* The future of flight s is gone: it returned or was dropped.
Release(s) == fl' \in {Later([fl EXCEPT ![s] = x], s) : x \in Released(s)}

\* The caller drops the suspended future of flight s (select!, timeout,
\* abort). A handle moved into it is dropped with it, with its context.
future_drop(s) ==
    /\ ~crashed
    /\ Held(s)
    /\ tag' = IF fl[s].name \in ConsumingNames THEN "Dropped" ELSE tag
    /\ Release(s)
    /\ UNCHANGED << ptr, config, ret, said, lastCall, eng, inst, cycles, storeVars,
                    restVars >>

\* The callback of orphan s runs through the address of a closure in a freed
\* frame: `result = r; notify_clone.notify_one()`. The write has no effect on
\* the caller or ends the process.
LostWrite(s) ==
    /\ fl' = [fl EXCEPT ![s] = Idle]
    /\ crashed' \in BOOLEAN
    /\ UNCHANGED << strayed, storeVars >>

\* Or the freed memory is the frame of a call suspended later, a flight or
\* the page request of store_query. Both the assignment and the notification
\* land there: the cell of that live call holds r and its task is notified.
CrossWrite(s, r) ==
    \/ \E t \in Flights \ fl[s].old :
         /\ Held(t)
         /\ fl' = [fl EXCEPT ![s] = Idle, ![t].st = "answered", ![t].ans = r]
         /\ strayed' = TRUE
         /\ UNCHANGED << crashed, storeVars >>
    \/ /\ sq_pc \in {"sent", "answered"}
       /\ StoreSlot \notin fl[s].old
       /\ fl' = [fl EXCEPT ![s] = Idle]
       /\ sq_pc' = "answered"
       /\ sq_answer' = r
       /\ strayed' = TRUE
       /\ UNCHANGED << crashed, sq_args, sq_cursor, sq_messages, sq_reqs,
                       sq_pages, sq_due, sq_ret >>

\* Or only the notification lands there: the task of that live call is
\* notified with its cell as it was, the default if its own callback has yet
\* to run.
CrossNotify(s) ==
    \/ \E t \in Flights \ fl[s].old :
         /\ Held(t)
         /\ fl' = [fl EXCEPT ![s] = Idle, ![t].st = "answered",
                             ![t].ans = Cell(t)]
         /\ strayed' = TRUE
         /\ UNCHANGED << crashed, storeVars >>
    \/ /\ sq_pc \in {"sent", "answered"}
       /\ StoreSlot \notin fl[s].old
       /\ fl' = [fl EXCEPT ![s] = Idle]
       /\ sq_pc' = "answered"
       /\ sq_answer' = IF sq_pc = "answered" THEN sq_answer
                       ELSE LibwakuResponse_default
       /\ strayed' = TRUE
       /\ UNCHANGED << crashed, sq_args, sq_cursor, sq_messages, sq_reqs,
                       sq_pages, sq_due, sq_ret >>

DanglingWrite(s, r) == LostWrite(s) \/ CrossWrite(s, r) \/ CrossNotify(s)

\* The engine answers a call whose future is gone.
late_callback(s) ==
    /\ ~crashed
    /\ fl[s].st = "orphan"
    /\ fl[s].op # "waku_store_query"
    /\ \E r \in EngineAnswers :
         /\ EngineEffect(fl[s].op, fl[s].p, r)
         /\ DanglingWrite(s, r)
    /\ UNCHANGED << tag, ptr, config, ret, said, lastCall, inst, cycles,
                    connVars, eventVars, b_pc, b_op, b_result, b_permit,
                    b_objptr, b_out, b_alive, b_stale, e_plan, e_sent, deadWrites >>

\* ---------------------------------------------------------------- lifecycle
LifeInit ==
    /\ tag = "NoNode"
    /\ ptr = NULL_PTR
    /\ config = None
    /\ ret = NoRet
    /\ said = NoAnswer
    /\ lastCall = NoCall
    /\ eng = [h \in Handles |-> "none"]
    /\ inst = [ptr |-> NULL_PTR, config |-> None]
    /\ cycles = 0
    /\ conn_timeout = None
    /\ conn_ms = 0

\* No call is in flight; the model holds up to MaxInFlight futures at once,
\* or one, or two.
FlightsIdle == fl = [s \in 1..MaxInFlight |-> Idle]
OneFlightIdle == fl = [s \in 1..1 |-> Idle]
TwoFlightsIdle == fl = [s \in 1..2 |-> Idle]

StoreIdle ==
    /\ sq_pc = "idle"
    /\ sq_args = CHOOSE a \in StoreArgs : a.include_data
    /\ sq_cursor = None
    /\ sq_messages = << >>
    /\ sq_reqs = << >>
    /\ sq_pages = << >>
    /\ sq_answer = NoAnswer
    /\ sq_due = FALSE
    /\ sq_ret = Pending

\* The pointers the engine can return from waku_new, those of no node and of
\* no waku_new it has yet to answer, and the one it returns: the first.
FreshPtrs ==
    {h \in Handles :
        /\ eng[h] = "none"
        /\ \A s \in Flights : fl[s].op = "waku_new" => fl[s].p # h}
FreshPtr ==
    LET i == CHOOSE j \in 1..Len(PtrNames) :
                 /\ PtrNames[j] \in FreshPtrs
                 /\ \A k \in 1..(j - 1) : PtrNames[k] \notin FreshPtrs
    IN  PtrNames[i]

\* WakuNodeHandle::<Initialized>::new, up to the await in waku_new: cfg is
\* config.unwrap_or_default(), h the obj_ptr the foreign function returned.
\* An associated function: callable whenever the caller has no handle.
new(cfgs) ==
    /\ tag = "NoNode"
    /\ \A s \in Flights : Held(s) => fl[s].name # "new"
    /\ FreshPtrs # {}
    /\ \E cfg \in cfgs :
         /\ ForeignCall("waku_new", NULL_PTR)
         /\ Suspend("new", "waku_new", FreshPtr, cfg)
    /\ UNCHANGED << tag, ptr, config, eng, inst, cycles, storeVars,
                    restVars >>

\* new() after the await: the match over the cell, and on Ok the handle built
\* around the context and the configuration. A panic or an error leaves the
\* caller without a handle.
new_return ==
    \E s \in Flights :
        /\ ~crashed
        /\ fl[s].st = "answered"
        /\ fl[s].name = "new"
        /\ LET res == waku_new_match(fl[s].ans, fl[s].p)
           IN  /\ ret' = [op |-> "new", res |-> res]
               /\ said' = fl[s].own
               /\ IF res.kind = "Ok"
                  THEN /\ tag' = "Initialized"
                       /\ ptr' = res.val
                       /\ config' = fl[s].cfg
                       /\ inst' = [ptr |-> res.val, config |-> fl[s].cfg]
                  ELSE UNCHANGED << tag, ptr, config, inst >>
        /\ Release(s)
        /\ UNCHANGED << lastCall, eng, cycles, storeVars, restVars >>

\* A method taking &self, up to its await: the handle stays with the caller
\* in the same state.
BorrowBridged(name, op) ==
    /\ ForeignCall(op, ptr)
    /\ Suspend(name, op, ptr, None)
    /\ UNCHANGED << tag, ptr, config, eng, inst, cycles, storeVars,
                    bridgeVars, eventVars >>

BorrowCall(name, op) ==
    /\ BorrowBridged(name, op)
    /\ UNCHANGED connVars

\* A method taking &self after its await: the answer is converted and
\* returned; a panic unwinds the future and leaves the handle as it was.
borrow_return(s) ==
    /\ ~crashed
    /\ fl[s].st = "answered"
    /\ fl[s].name \notin ConsumingNames \cup {"new"}
    /\ ret' = [op |-> fl[s].name, res |-> Convert(fl[s].ans, "v")]
    /\ said' = fl[s].own
    /\ Release(s)
    /\ UNCHANGED << tag, ptr, config, lastCall, eng, inst, cycles, storeVars,
                    restVars >>

\* A transition taking self, up to its await: the handle is moved into the
\* future.
ConsumeCall(name, op) ==
    /\ ~Borrowed
    /\ ForeignCall(op, ptr)
    /\ Suspend(name, op, ptr, None)
    /\ tag' = "Moved"
    /\ UNCHANGED << ptr, config, eng, inst, cycles, storeVars, restVars >>

\* A transition taking self after its await: on Ok the caller gets the same
\* ctx and config under the new state, on Err (the `?`) and on a panic the
\* handle is dropped.
ConsumeReturn(to, name, keepCtx, keepConfig) ==
    \E s \in Flights :
        /\ ~crashed
        /\ fl[s].st = "answered"
        /\ fl[s].name = name
        /\ LET r == fl[s].ans
           IN  /\ ret' = [op |-> name, res |-> Convert(r, to)]
               /\ said' = fl[s].own
               /\ tag' = CASE Succeeded(r) -> to
                           [] r.tag = "MissingCallback" -> "Panicked"
                           [] OTHER -> "Dropped"
               /\ ptr' = IF Succeeded(r) /\ ~keepCtx THEN NULL_PTR ELSE ptr
               /\ config' = IF Succeeded(r) /\ ~keepConfig THEN None ELSE config
               /\ cycles' = IF Succeeded(r) /\ name = "stop" /\ cycles < MaxCycles
                            THEN cycles + 1 ELSE cycles
        /\ Release(s)
        /\ UNCHANGED << lastCall, eng, inst, storeVars, restVars >>

\* Faulty variants: a stop that builds the Initialized handle around an empty
\* context, and a listen_addresses defined for every State.
stop_fresh_ctx == ConsumeReturn("Initialized", "stop", FALSE, TRUE)

listen_addresses_any_state ==
    /\ tag \in LiveTags
    /\ BorrowCall("listen_addresses", "waku_listen_addresses")

version ==
    /\ tag \in LiveTags
    /\ BorrowCall("version", "waku_version")

start ==
    /\ tag = "Initialized"
    /\ ConsumeCall("start", "waku_start")

start_return == ConsumeReturn("Running", "start", TRUE, TRUE)

stop ==
    /\ tag = "Running"
    /\ ConsumeCall("stop", "waku_stop")

stop_return == ConsumeReturn("Initialized", "stop", TRUE, TRUE)

\* WakuNodeHandle::waku_destroy after its await: ctx.reset_ptr(), then the
\* engine's answer is returned and the handle dropped. A panic ends the call
\* inside management::waku_destroy, before the reset.
Destroy(reset) ==
    \E s \in Flights :
        /\ ~crashed
        /\ fl[s].st = "answered"
        /\ fl[s].name = "waku_destroy"
        /\ LET r == fl[s].ans
           IN  /\ ret' = [op |-> "waku_destroy", res |-> Convert(r, "unit")]
               /\ said' = fl[s].own
               /\ tag' = IF r.tag = "MissingCallback" THEN "Panicked" ELSE "Destroyed"
               /\ ptr' = IF r.tag = "MissingCallback" \/ ~reset THEN ptr ELSE NULL_PTR
        /\ Release(s)
        /\ UNCHANGED << config, lastCall, eng, inst, cycles, storeVars,
                        restVars >>

\* Faulty variant: the reset of the pointer is left out.
waku_destroy_no_reset == Destroy(FALSE)

\* Defined for every State: callable on an Initialized and on a Running handle.
waku_destroy ==
    /\ tag \in LiveTags
    /\ ConsumeCall("waku_destroy", "waku_destroy")

waku_destroy_return == Destroy(TRUE)

listen_addresses ==
    /\ tag = "Running"
    /\ BorrowCall("listen_addresses", "waku_listen_addresses")

\* Duration::as_millis().try_into::<i32>() succeeds: the count of whole
\* milliseconds, a u128, is at most i32::MAX. The count is compared in
\* seconds and milliseconds of the second.
fits_i32(d) ==
    \/ d.secs < i32_MAX \div 1000
    \/ (d.secs = i32_MAX \div 1000 /\ d.nanos \div 1000000 <= i32_MAX % 1000)

\* Duration::as_millis(): whole milliseconds, the rest cut off.
as_millis(d) == d.secs * 1000 + d.nanos \div 1000000

\* Faulty variant of the conversion below: a count that does not fit becomes
\* 0, the value that means no timeout.
timeout_ms_or_zero(timeout) ==
    IF timeout = None THEN 0
    ELSE IF fits_i32(timeout[1]) THEN as_millis(timeout[1]) ELSE 0

\* The timeoutMs argument of waku_connect: 0 for no timeout, else the
\* millisecond count, clamped to i32::MAX when it does not fit an i32.
timeout_ms(timeout) ==
    IF timeout = None THEN 0
    ELSE IF fits_i32(timeout[1]) THEN as_millis(timeout[1]) ELSE i32_MAX

\* connect passes its timeout on to peers::waku_connect.
connect(timeouts) ==
    /\ tag = "Running"
    /\ \E timeout \in timeouts :
         /\ conn_timeout' = timeout
         /\ conn_ms' = timeout_ms(timeout)
    /\ BorrowBridged("connect", "waku_connect")

\* Faulty variant: only an absent relay flag counts as disabled.
relay_disabled_only_none(cfg) == cfg = None

\* self.config.relay.is_none_or(|enabled| !enabled): relay is absent, or it
\* is present and false.
relay_disabled(cfg) == cfg = None \/ ~cfg[1]

\* The three relay methods: the configuration gate, then the bridged call.
RelayCall(name, op) ==
    /\ ~crashed
    /\ IF relay_disabled(config)
       THEN /\ ret' = [op |-> name, res |-> Err(RelayDisabledMsg)]
            /\ said' = NoAnswer
            /\ UNCHANGED << tag, ptr, config, lastCall, fl, eng, inst, cycles,
                            storeVars, restVars >>
       ELSE BorrowCall(name, op)

relay_publish_message ==
    /\ tag = "Running"
    /\ RelayCall("relay_publish_message", "waku_relay_publish")

relay_subscribe ==
    /\ tag = "Running"
    /\ RelayCall("relay_subscribe", "waku_relay_subscribe")

relay_unsubscribe ==
    /\ tag = "Running"
    /\ RelayCall("relay_unsubscribe", "waku_relay_unsubscribe")

filter_subscribe ==
    /\ tag = "Running"
    /\ BorrowCall("filter_subscribe", "waku_filter_subscribe")

filter_unsubscribe ==
    /\ tag = "Running"
    /\ BorrowCall("filter_unsubscribe", "waku_filter_unsubscribe")

filter_unsubscribe_all ==
    /\ tag = "Running"
    /\ BorrowCall("filter_unsubscribe_all", "waku_filter_unsubscribe_all")

lightpush_publish_message ==
    /\ tag = "Running"
    /\ BorrowCall("lightpush_publish_message", "waku_lightpush_publish")

RelayNames == {"relay_publish_message", "relay_subscribe", "relay_unsubscribe"}

\* ------------------------------------------------------------- store_query
\* Vec::reverse, and the faulty variant that leaves the order as it is.
reverse_omitted(s) == s

reverse(s) == [i \in 1..Len(s) |-> s[Len(s) + 1 - i]]

\* Faulty variant of the request below: every request asks for the first
\* page.
StoreQueryRequest_first_page(args, cur) ==
    [pubsub_topic |-> args.pubsub_topic, content_topics |-> args.content_topics,
     include_data |-> args.include_data, time_start |-> args.time_start,
     time_end |-> args.time_end, pagination_cursor |-> None,
     pagination_forward |-> TRUE,
     peer_addr |-> args.peer_addr, timeout_millis |-> args.timeout_millis]

\* StoreQueryRequest::new().with_...(..): the caller's arguments, the current
\* cursor, and the forward flag fixed to true.
StoreQueryRequest(args, cur) ==
    [pubsub_topic |-> args.pubsub_topic, content_topics |-> args.content_topics,
     include_data |-> args.include_data, time_start |-> args.time_start,
     time_end |-> args.time_end, pagination_cursor |-> cur,
     pagination_forward |-> TRUE,
     peer_addr |-> args.peer_addr, timeout_millis |-> args.timeout_millis]

\* The `?` after the await of a page: the error is returned as it is and the
\* accumulator is dropped. The faulty variant returns what was accumulated.
question_mark_partial(res, messages) ==
    IF res.kind = "Err" THEN Ok(reverse(messages)) ELSE res

question_mark(res, messages) == res

\* `if response.pagination_cursor.is_none() { break; }`: the local cursor
\* plays no part. The faulty variant also stops on a cursor it already sent.
loop_break_on_repeat(cursor, response) ==
    response.cursor = None \/ response.cursor = cursor

loop_break(cursor, response) == response.cursor = None

\* Lines 237-247: the query is built from the caller's arguments and the
\* cursor, the foreign call is made and the future is suspended at the await
\* of the page. The loop has no bound of its own; maxReqs bounds the model.
StoreRequest(args, cur, reqs, maxReqs) ==
    /\ Len(reqs) < maxReqs
    /\ ForeignCall("waku_store_query", ptr)
    /\ sq_args' = args
    /\ sq_reqs' = Append(reqs, StoreQueryRequest(args, cur))
    /\ sq_pc' = "sent"
    /\ sq_due' = TRUE

\* The call of store_query with arguments of argSet: cursor = None,
\* messages = Vec::new(), and the first turn of the loop up to its await.
\* Nothing of one call outlives it, so a behaviour holds one call, or another
\* after a dropped one.
store_query(argSet, maxReqs) ==
    /\ tag = "Running"
    /\ sq_pc = "idle"
    /\ Room
    /\ \E args \in argSet : StoreRequest(args, None, << >>, maxReqs)
    /\ sq_cursor' = None
    /\ sq_messages' = << >>
    /\ sq_pages' = << >>
    /\ sq_answer' = NoAnswer
    /\ sq_ret' = Pending
    /\ ret' = [op |-> "store_query", res |-> Pending]
    /\ said' = NoAnswer
    /\ UNCHANGED << tag, ptr, config, fl, eng, inst, cycles, restVars >>

\* The answers of the engine to a page request: a page of pageSet, a
\* failure, or the missing-callback code.
StoreAnswers(pageSet) ==
    pageSet \cup {Failure(m) : m \in ErrMsgs} \cup {MissingCallback}

\* The engine invokes the callback of the page request.
store_query_callback(pageSet) ==
    /\ ~crashed
    /\ sq_pc \in {"sent", "answered"}
    /\ sq_due
    /\ sq_answer' \in StoreAnswers(pageSet)
    /\ sq_pc' = "answered"
    /\ sq_due' = FALSE
    /\ UNCHANGED << sq_args, sq_cursor, sq_messages, sq_reqs, sq_pages, sq_ret,
                    lifeVars, restVars >>

\* A page request the engine has yet to answer, its future gone.
StoreOrphan ==
    [name |-> "store_query", op |-> "waku_store_query", p |-> ptr, cfg |-> None,
     st |-> "orphan", ans |-> NoAnswer, own |-> NoAnswer, due |-> TRUE,
     old |-> {t \in Flights : Held(t)}]

\* The flights once the future of the page request is gone, returned or
\* dropped: a request not answered yet stays with the engine, or the engine
\* never answers it.
StoreReleased ==
    {Later(fl, StoreSlot)} \cup
        IF sq_due /\ FreeFlights # {}
        THEN {Later([fl EXCEPT ![NextFlight] = StoreOrphan], StoreSlot)}
        ELSE {}

\* What the page request returns for a Success whose text is no store
\* response.
NotAStoreResponse == "not a store response"
\* The conversion of an envelope that carries no page.
StoreConvert(r) ==
    IF r.tag = "Success" THEN Err(NotAStoreResponse) ELSE Convert(r, << >>)

\* The future is resumed after the await: the `?`, the page appended, the
\* test of its cursor, and either the return or the next turn of the loop up
\* to its await. A panic unwinds the future and leaves the handle as it was.
store_query_next(maxReqs) ==
    /\ ~crashed
    /\ sq_pc = "answered"
    /\ LET r == sq_answer
       IN  IF r.tag = "Page"
           THEN /\ sq_pages' = Append(sq_pages, r)
                /\ IF loop_break(sq_cursor, r)
                   THEN /\ sq_pc' = "done"
                        /\ sq_due' = FALSE
                        /\ fl' \in StoreReleased
                        /\ sq_ret' = Ok(reverse(sq_messages \o r.messages))
                        /\ sq_cursor' = None
                        /\ sq_messages' = << >>
                        /\ ret' = [op |-> "store_query", res |-> sq_ret']
                        /\ UNCHANGED << sq_args, sq_reqs, lastCall >>
                   ELSE /\ StoreRequest(sq_args, r.cursor, sq_reqs, maxReqs)
                        /\ fl' \in StoreReleased
                        /\ sq_ret' = Pending
                        /\ sq_cursor' = r.cursor
                        /\ sq_messages' = sq_messages \o r.messages
                        /\ UNCHANGED ret
           ELSE /\ sq_pc' = "done"
                /\ sq_due' = FALSE
                /\ fl' \in StoreReleased
                /\ sq_ret' = question_mark(StoreConvert(r), sq_messages)
                /\ sq_cursor' = None
                /\ sq_messages' = << >>
                /\ ret' = [op |-> "store_query", res |-> sq_ret']
                /\ UNCHANGED << sq_args, sq_reqs, sq_pages, lastCall >>
    /\ said' = NoAnswer
    /\ UNCHANGED << sq_answer, tag, ptr, config, eng, inst, cycles, restVars >>

\* The caller drops the suspended future: its locals go, the borrow ends.
store_query_drop ==
    /\ ~crashed
    /\ sq_pc \in {"sent", "answered"}
    /\ fl' \in StoreReleased
    /\ sq_pc' = "idle"
    /\ sq_due' = FALSE
    /\ sq_cursor' = None
    /\ sq_messages' = << >>
    /\ sq_reqs' = << >>
    /\ sq_pages' = << >>
    /\ sq_answer' = NoAnswer
    /\ sq_ret' = Pending
    /\ UNCHANGED << sq_args, tag, ptr, config, ret, said, lastCall, eng, inst, cycles,
                    restVars >>

\* The engine answers the page request of a store_query whose future is
\* gone.
store_query_late_callback(pageSet) ==
    \E s \in Flights :
        /\ ~crashed
        /\ fl[s].st = "orphan"
        /\ fl[s].op = "waku_store_query"
        /\ \/ LostWrite(s)
           \/ CrossNotify(s)
           \/ \E r \in StoreAnswers(pageSet) : CrossWrite(s, r)
        /\ UNCHANGED << tag, ptr, config, ret, said, lastCall, eng, inst, cycles,
                        connVars, eventVars, b_pc, b_op, b_result, b_permit,
                        b_objptr, b_out, b_alive, b_stale, e_plan, e_sent, deadWrites >>

\* ---------------------------------------------------------- callback bridge
\* The bridged calls in flight at once, each an activation of waku_new or of
\* a method of management.rs on the node's context.
Calls == 1..NCalls
BridgedOps == {"waku_new", "waku_version"}
\* How often the engine invokes the callback of one call.
CallbackPlans == {0, 1}
\* An engine that may break the one-shot contract and invoke it twice.
RepeatedPlans == {1, 2}

\* The pointer the engine returns from the foreign call of call c: a fresh
\* one for each call.
EnginePtr(c) == PtrNames[c]

\* Notify::notify_one: a permit is stored when no task waits yet, and a
\* waiting task is woken. The faulty variant is Notify::notify_waiters, which
\* only wakes a task that already waits.
notify_waiters(c) == b_permit[c] \/ b_pc[c] = "parked"

notify_one(c) == TRUE

\* `let mut result`: every activation has a cell of its own. The faulty
\* variant shares one cell between the activations.
result_shared(c) == 1

result_cell(c) == c

\* The calls whose frame is freed while the engine has yet to run their
\* closure: memory the frame of the next call may be made of.
StaleFrames ==
    {c \in Calls : b_pc[c] \in {"done", "dropped"} /\ Len(e_sent[c]) < e_plan[c]}

\* Lines 28-38: the Notify, the cell holding LibwakuResponse::default(), the
\* closure, and the entry into the foreign function with the trampoline and
\* the closure's address. The engine settles how it will treat the callback.
bridge_enter(c, plans) ==
    /\ ~crashed
    /\ b_pc[c] = "idle"
    /\ \E op \in BridgedOps, n \in plans :
         /\ b_op' = [b_op EXCEPT ![c] = op]
         /\ e_plan' = [e_plan EXCEPT ![c] = n]
    /\ b_pc' = [b_pc EXCEPT ![c] = "ffi"]
    /\ b_result' = [b_result EXCEPT ![result_cell(c)] = LibwakuResponse_default]
    /\ b_permit' = [b_permit EXCEPT ![c] = FALSE]
    /\ b_alive' = [b_alive EXCEPT ![c] = TRUE]
    /\ b_stale' = [b_stale EXCEPT ![c] = StaleFrames]
    /\ UNCHANGED << b_objptr, b_out, e_sent, deadWrites, strayed, crashed,
                    nodeVars >>

\* result_cb, run by the engine through the trampoline, on the calling thread
\* inside the foreign call or on another thread at any later time:
\* `result = r; notify_clone.notify_one()`. The closure, the cell and
\* notify_clone live in the frame of the future: once the future completed or
\* was dropped, the write lands in freed memory: with no effect, ending the
\* process, or in the frame a later call made of that memory, whose task is
\* notified with its cell assigned or left as it was.
trampoline(c) ==
    /\ ~crashed
    /\ b_pc[c] # "idle"
    /\ Len(e_sent[c]) < e_plan[c]
    /\ \E r \in Responses :
         /\ e_sent' = [e_sent EXCEPT ![c] = Append(@, r)]
         /\ IF b_alive[c]
            THEN /\ b_result' = [b_result EXCEPT ![result_cell(c)] = r]
                 /\ b_permit' = [b_permit EXCEPT ![c] = notify_one(c)]
                 /\ UNCHANGED << deadWrites, strayed, crashed >>
            ELSE /\ deadWrites' = deadWrites \cup {c}
                 /\ \/ UNCHANGED << b_result, b_permit, strayed, crashed >>
                    \/ /\ crashed' = TRUE
                       /\ UNCHANGED << b_result, b_permit, strayed >>
                    \/ \E d \in Calls :
                         /\ b_alive[d]
                         /\ c \in b_stale[d]
                         /\ b_result' \in {b_result, [b_result EXCEPT ![d] = r]}
                         /\ b_permit' = [b_permit EXCEPT ![d] = TRUE]
                         /\ strayed' = TRUE
                         /\ UNCHANGED crashed
    /\ UNCHANGED << b_pc, b_op, b_objptr, b_out, b_alive, b_stale, e_plan, nodeVars >>

\* The foreign function returns: `let obj_ptr = unsafe { ... }`.
foreign_return(c) ==
    /\ ~crashed
    /\ b_pc[c] = "ffi"
    /\ b_pc' = [b_pc EXCEPT ![c] = "await"]
    /\ b_objptr' = [b_objptr EXCEPT ![c] = EnginePtr(c)]
    /\ UNCHANGED << b_op, b_result, b_permit, b_out, b_alive, b_stale, e_plan, e_sent,
                    deadWrites, strayed, crashed, nodeVars >>

\* What the call returns once the notification arrived: the match over the
\* cell. The future completes and its frame is freed.
BridgeResume(c) ==
    /\ b_permit' = [b_permit EXCEPT ![c] = FALSE]
    /\ b_pc' = [b_pc EXCEPT ![c] = "done"]
    /\ b_alive' = [b_alive EXCEPT ![c] = FALSE]
    /\ b_stale' = [b_stale EXCEPT ![c] = {}]
    /\ b_out' = [b_out EXCEPT ![c] =
                   IF b_op[c] = "waku_new"
                   THEN waku_new_match(b_result[result_cell(c)], b_objptr[c])
                   ELSE handle_response(b_result[result_cell(c)])]
    /\ UNCHANGED << b_op, b_result, b_objptr, e_plan, e_sent, deadWrites, strayed,
                    crashed, nodeVars >>

\* `notify.notified().await`, first poll: a stored permit is taken and the
\* call goes on; otherwise the task is parked as the Notify's waiter.
notified_poll(c) ==
    /\ ~crashed
    /\ b_pc[c] = "await"
    /\ IF b_permit[c]
       THEN BridgeResume(c)
       ELSE /\ b_pc' = [b_pc EXCEPT ![c] = "parked"]
            /\ UNCHANGED << b_op, b_result, b_permit, b_objptr, b_out, b_alive, b_stale,
                            e_plan, e_sent, deadWrites, strayed, crashed,
                            nodeVars >>

\* The parked task was notified and is polled again.
notified_wake(c) ==
    /\ ~crashed
    /\ b_pc[c] = "parked"
    /\ b_permit[c]
    /\ BridgeResume(c)

\* The caller drops the suspended future (select!, timeout, abort): the frame
\* is freed while the engine still holds the closure's address.
task_cancel(c) ==
    /\ ~crashed
    /\ b_pc[c] = "parked"
    /\ b_pc' = [b_pc EXCEPT ![c] = "dropped"]
    /\ b_alive' = [b_alive EXCEPT ![c] = FALSE]
    /\ b_stale' = [b_stale EXCEPT ![c] = {}]
    /\ UNCHANGED << b_op, b_result, b_permit, b_objptr, b_out, e_plan, e_sent,
                    deadWrites, strayed, crashed, nodeVars >>

BridgeIdle ==
    /\ b_pc = [c \in Calls |-> "idle"]
    /\ b_op = [c \in Calls |-> "waku_new"]
    /\ b_result = [c \in Calls |-> LibwakuResponse_default]
    /\ b_permit = [c \in Calls |-> FALSE]
    /\ b_objptr = [c \in Calls |-> NULL_PTR]
    /\ b_out = [c \in Calls |-> Pending]
    /\ b_alive = [c \in Calls |-> FALSE]
    /\ b_stale = [c \in Calls |-> {}]
    /\ e_plan = [c \in Calls |-> 0]
    /\ e_sent = [c \in Calls |-> << >>]
    /\ deadWrites = {}
    /\ strayed = FALSE
    /\ crashed = FALSE

\* ------------------------------------------------------------ event bridge
Sinks == 1..NSinks
\* The engine's threads that fire events.
Producers == {1, 2}
\* The n-th event of producer p, as the trampoline hands it to the callback.
Event(p, n) == [tag |-> "Success", val |-> << p, n >>]

\* The context exists: the handle is with the caller, or inside a suspended
\* future. A dropped, destroyed or unwound handle took its context along.
CtxAlive == tag \in LiveTags \cup {"Moved"}

\* The sending ends of the channel of stream s. tx is a local of
\* response_stream, dropped when it returns; tx_clone is owned by the
\* callback, which is handed by value to the context. Where the context keeps
\* it is not in the sources at hand and is taken from the specification: in
\* its single slot, which a registration overwrites and which goes with the
\* context. So a sender is left while the slot of a context that exists holds
\* the callback of s.
SenderAlive(s) == ev_slot = s /\ CtxAlive

\* What WakuNodeContext::waku_set_event_callback may return.
RegistrationResults == {Ok("unit")} \cup {Err(m) : m \in ErrMsgs}

\* Faulty variant of the slot below: the first registration stays.
slot_keep_first(slot, s, res) ==
    IF res.kind = "Ok" /\ slot = 0 THEN s ELSE slot

\* The slot of the context after a registration of sink s that returned res:
\* a registration that succeeds replaces, and thereby drops, the callback the
\* slot held; one that fails drops the callback it was given.
slot_write(slot, s, res) == IF res.kind = "Ok" THEN s ELSE slot

\* The sink a call registers: the next unused one.
FreshSink == CHOOSE s \in Sinks : ev_kind[s] = "none" /\ \A t \in 1..(s - 1) : ev_kind[t] # "none"

\* The registration itself, common to set_event_callback and response_stream.
Register(s, res) ==
    /\ ev_slot' = slot_write(ev_slot, s, res)
    /\ ev_reg' = [ev_reg EXCEPT ![s] = res]
    /\ ev_regs' = IF res.kind = "Ok" THEN Append(ev_regs, s) ELSE ev_regs

\* set_event_callback: the caller's closure goes to the context, the result
\* back to the caller.
set_event_callback ==
    /\ ~crashed
    /\ tag = "Initialized"
    /\ \E s \in Sinks : ev_kind[s] = "none"
    /\ \E res \in RegistrationResults :
         /\ Register(FreshSink, res)
         /\ ret' = [op |-> "set_event_callback", res |-> res]
    /\ ev_kind' = [ev_kind EXCEPT ![FreshSink] = "closure"]
    /\ said' = NoAnswer
    /\ UNCHANGED << tag, ptr, config, lastCall, fl, eng, inst,
                    cycles, ev_chan, ev_recv, ev_rx, ev_ended, ev_count, ev_fired,
                    storeVars, bridgeVars, connVars >>

\* `if let Err(error) = .. { tx.send(LibwakuResponse::Failure(error)).unwrap(); }`:
\* what response_stream itself puts into the channel. rx is still a local, so
\* the send cannot fail. The faulty variant swallows the error.
registration_items_none(res) == << >>

registration_items(res) ==
    IF res.kind = "Err" THEN << Failure(res.val) >> ELSE << >>

\* response_stream: a new channel, the callback around tx_clone registered,
\* the error of a failed registration sent through tx, the receiving end
\* returned as the stream. Nothing else is returned.
response_stream ==
    /\ ~crashed
    /\ tag = "Initialized"
    /\ \E s \in Sinks : ev_kind[s] = "none"
    /\ \E res \in RegistrationResults :
         /\ Register(FreshSink, res)
         /\ ev_chan' = [ev_chan EXCEPT ![FreshSink] = registration_items(res)]
    /\ ev_kind' = [ev_kind EXCEPT ![FreshSink] = "stream"]
    /\ ev_rx' = [ev_rx EXCEPT ![FreshSink] = TRUE]
    /\ ret' = [op |-> "response_stream", res |-> Ok("stream")]
    /\ said' = NoAnswer
    /\ UNCHANGED << tag, ptr, config, lastCall, fl, eng, inst,
                    cycles, ev_recv, ev_ended, ev_count, ev_fired,
                    storeVars, bridgeVars, connVars >>

\* Faulty variant of the callback below: the newest item goes first.
callback_send_front(chan, event) == << event >> \o chan

\* The callback of response_stream, `let _ = tx_clone.send(event)`: the event
\* is appended to the unbounded channel.
callback_send(chan, event) == Append(chan, event)

\* The engine fires an event from producer p: the trampoline runs the
\* callback the context holds. A stream's callback sends into its channel,
\* and the error of a send to a dropped stream is ignored. With the context
\* gone the engine's pointer dangles: the call ends the process or is lost.
fire(p, maxEvents) ==
    /\ ~crashed
    /\ engLive
    /\ ev_slot # 0
    /\ Cardinality(ev_fired) < maxEvents
    /\ LET n == ev_count[p] + 1
           e == Event(p, n)
           s == ev_slot
       IN  /\ ev_count' = [ev_count EXCEPT ![p] = n]
           /\ ev_fired' = ev_fired \cup
                  {[prod |-> p, n |-> n, gen |-> Len(ev_regs), ctx |-> CtxAlive]}
           /\ IF CtxAlive
              THEN /\ IF ev_kind[s] = "stream"
                      THEN /\ ev_chan' = IF ev_rx[s]
                                         THEN [ev_chan EXCEPT ![s] = callback_send(@, e)]
                                         ELSE ev_chan
                           /\ UNCHANGED ev_recv
                      ELSE /\ ev_recv' = [ev_recv EXCEPT ![s] = Append(@, e)]
                           /\ UNCHANGED ev_chan
                   /\ UNCHANGED crashed
              ELSE /\ crashed' \in BOOLEAN
                   /\ UNCHANGED << ev_chan, ev_recv >>
    /\ UNCHANGED << ev_slot, ev_kind, ev_reg, ev_rx, ev_ended, ev_regs,
                    lifeVars, storeVars, connVars,
                    b_pc, b_op, b_result, b_permit, b_objptr, b_out, b_alive, b_stale,
                    e_plan, e_sent, deadWrites, strayed >>

\* The consumer polls stream s (UnboundedReceiverStream::poll_next): the
\* oldest item if there is one; the end of the stream if the channel is
\* empty and every sender is gone; otherwise it waits.
stream_next(s) ==
    /\ ~crashed
    /\ ev_kind[s] = "stream"
    /\ ev_rx[s]
    /\ ~ev_ended[s]
    /\ IF ev_chan[s] # << >>
       THEN /\ ev_recv' = [ev_recv EXCEPT ![s] = Append(@, Head(ev_chan[s]))]
            /\ ev_chan' = [ev_chan EXCEPT ![s] = Tail(@)]
            /\ UNCHANGED ev_ended
       ELSE /\ ~SenderAlive(s)
            /\ ev_ended' = [ev_ended EXCEPT ![s] = TRUE]
            /\ UNCHANGED << ev_recv, ev_chan >>
    /\ UNCHANGED << ev_slot, ev_kind, ev_reg, ev_rx, ev_regs, ev_count, ev_fired,
                    lifeVars, storeVars, connVars, bridgeVars >>

\* The consumer drops stream s: the receiving end and what it buffered go.
stream_drop(s) ==
    /\ ~crashed
    /\ ev_kind[s] = "stream"
    /\ ev_rx[s]
    /\ ev_rx' = [ev_rx EXCEPT ![s] = FALSE]
    /\ ev_chan' = [ev_chan EXCEPT ![s] = << >>]
    /\ UNCHANGED << ev_slot, ev_kind, ev_reg, ev_recv, ev_ended, ev_regs, ev_count,
                    ev_fired, lifeVars, storeVars, connVars, bridgeVars >>

EventIdle ==
    /\ ev_slot = 0
    /\ ev_kind = [s \in Sinks |-> "none"]
    /\ ev_reg = [s \in Sinks |-> Pending]
    /\ ev_chan = [s \in Sinks |-> << >>]
    /\ ev_recv = [s \in Sinks |-> << >>]
    /\ ev_rx = [s \in Sinks |-> FALSE]
    /\ ev_ended = [s \in Sinks |-> FALSE]
    /\ ev_regs = << >>
    /\ ev_count = [p \in Producers |-> 0]
    /\ ev_fired = {}

\* ----------------------------------------------------------- specifications
LifeNext ==
    \/ new(LifeConfigs)
    \/ new_return
    \/ version
    \/ start
    \/ start_return
    \/ stop
    \/ stop_return
    \/ waku_destroy
    \/ waku_destroy_return
    \/ \E s \in Flights : engine_callback(s)
    \/ \E s \in Flights : borrow_return(s)
    \/ \E s \in Flights : future_drop(s)
    \/ \E s \in Flights : late_callback(s)

\* The node from instantiation to teardown, with calls in flight together.
Init == LifeInit /\ TwoFlightsIdle /\ StoreIdle /\ BridgeIdle /\ EventIdle
Spec == Init /\ [][LifeNext]_vars

\* A running node, as new() and start() leave it.
RunningNode ==
    /\ tag = "Running"
    /\ ptr = "p1"
    /\ config = Some(TRUE)
    /\ ret = [op |-> "start", res |-> Ok("Running")]
    /\ said = Success
    /\ lastCall = [op |-> "waku_start", ptr |-> "p1", tag |-> "Initialized",
                   started |-> FALSE]
    /\ eng = [h \in Handles |-> IF h = "p1" THEN "started" ELSE "none"]
    /\ inst = [ptr |-> "p1", config |-> Some(TRUE)]
    /\ cycles = 0
    /\ conn_timeout = None
    /\ conn_ms = 0

\* An instantiated node, as new() leaves it.
InitializedNode ==
    /\ tag = "Initialized"
    /\ ptr = "p1"
    /\ config = Some(TRUE)
    /\ ret = [op |-> "new", res |-> Ok("p1")]
    /\ said = Success
    /\ lastCall = [op |-> "waku_new", ptr |-> NULL_PTR, tag |-> "NoNode",
                   started |-> FALSE]
    /\ eng = [h \in Handles |-> IF h = "p1" THEN "live" ELSE "none"]
    /\ inst = [ptr |-> "p1", config |-> Some(TRUE)]
    /\ cycles = 0
    /\ conn_timeout = None
    /\ conn_ms = 0

\* The page requests of one store_query where the pagination is not the
\* subject.
OpsReqs == 1

\* The caller holds no future: it awaited or dropped those of its earlier
\* calls.
NoneHeld == HeldCount = 0

OpsNext ==
    \/ NoneHeld /\ start
    \/ start_return
    \/ NoneHeld /\ stop
    \/ stop_return
    \/ NoneHeld /\ waku_destroy
    \/ waku_destroy_return
    \/ \E s \in Flights : engine_callback(s)
    \/ \E s \in Flights : borrow_return(s)
    \/ \E s \in Flights : future_drop(s)
    \/ \E s \in Flights : late_callback(s)
    \/ version
    \/ NoneHeld /\ listen_addresses
    \/ NoneHeld /\ connect({None})
    \/ NoneHeld /\ relay_publish_message
    \/ NoneHeld /\ relay_subscribe
    \/ NoneHeld /\ relay_unsubscribe
    \/ NoneHeld /\ filter_subscribe
    \/ NoneHeld /\ filter_unsubscribe
    \/ NoneHeld /\ filter_unsubscribe_all
    \/ NoneHeld /\ lightpush_publish_message
    \/ NoneHeld /\ store_query(DataArgs, OpsReqs)
    \/ store_query_callback(BarePages)
    \/ store_query_next(OpsReqs)
    \/ store_query_drop
    \/ store_query_late_callback(BarePages)

\* Every method of an instantiated node. The future of a method is awaited
\* or dropped before the next is called, but for version(), which is also
\* called next to the suspended future of another method; the call of a
\* dropped future is still with the engine during the calls that follow.
OpsInit == InitializedNode /\ TwoFlightsIdle /\ StoreIdle /\ BridgeIdle /\ EventIdle
SpecOps == OpsInit /\ [][OpsNext]_vars

RelayNext ==
    \/ new(RelayOpts)
    \/ new_return
    \/ start
    \/ start_return
    \/ stop
    \/ stop_return
    \/ \E s \in Flights : engine_callback(s)
    \/ \E s \in Flights : borrow_return(s)
    \/ \E s \in Flights : future_drop(s)
    \/ \E s \in Flights : late_callback(s)
    \/ relay_publish_message
    \/ relay_subscribe
    \/ relay_unsubscribe

\* The relay methods of a node under every configuration of relay.
RelayInit == LifeInit /\ OneFlightIdle /\ StoreIdle /\ BridgeIdle /\ EventIdle
SpecRelay == RelayInit /\ [][RelayNext]_vars

StoreNext ==
    \/ store_query(DataArgs, MaxReqs)
    \/ store_query_callback(AllPages)
    \/ store_query_next(MaxReqs)
    \/ store_query_drop
    \/ store_query_late_callback(LatePages)

\* store_query on a running node, against an engine free in its pages.
StoreInit == RunningNode /\ OneFlightIdle /\ StoreIdle /\ BridgeIdle /\ EventIdle
SpecStore == StoreInit /\ [][StoreNext]_vars

EventNext ==
    \/ set_event_callback
    \/ response_stream
    \/ \E p \in Producers : fire(p, MaxEvents)
    \/ \E s \in Sinks : stream_next(s)
    \/ \E s \in Sinks : stream_drop(s)

\* The event bridge of an instantiated node, the engine firing from two
\* threads.
EventInit == InitializedNode /\ FlightsIdle /\ StoreIdle /\ BridgeIdle /\ EventIdle
SpecEvents == EventInit /\ [][EventNext]_vars

EventLifeNext ==
    \/ set_event_callback
    \/ response_stream
    \/ \E p \in Producers : fire(p, 1)
    \/ \E s \in Sinks : stream_next(s)
    \/ start
    \/ start_return
    \/ stop
    \/ stop_return
    \/ waku_destroy
    \/ waku_destroy_return
    \/ \E s \in Flights : engine_callback(s)
    \/ \E s \in Flights : future_drop(s)
    \/ \E s \in Flights : late_callback(s)

\* The streams of a node across its whole lifecycle, the engine firing once.
EventLifeInit == InitializedNode /\ FlightsIdle /\ StoreIdle /\ BridgeIdle /\ EventIdle
SpecEventLife == EventLifeInit /\ [][EventLifeNext]_vars

ConnectNext ==
    \/ connect(Timeouts)
    \/ \E s \in Flights : engine_callback(s)
    \/ \E s \in Flights : borrow_return(s)
    \/ \E s \in Flights : future_drop(s)
    \/ \E s \in Flights : late_callback(s)

\* connect on a running node, with the timeouts of the table.
ConnectInit == RunningNode /\ FlightsIdle /\ StoreIdle /\ BridgeIdle /\ EventIdle
SpecConnect == ConnectInit /\ [][ConnectNext]_vars

ChainNext ==
    \/ store_query(StoreArgs, MaxChain)
    \/ store_query_callback(ChainPages)
    \/ store_query_next(MaxChain)
    \/ store_query_drop
    \/ store_query_late_callback(ChainPages)

\* store_query through a longer pagination, against an engine free in its
\* cursors.
ChainInit == RunningNode /\ OneFlightIdle /\ StoreIdle /\ BridgeIdle /\ EventIdle
SpecChain == ChainInit /\ [][ChainNext]_vars

BridgeInit == RunningNode /\ FlightsIdle /\ StoreIdle /\ BridgeIdle /\ EventIdle

BridgeNext ==
    \E c \in Calls :
        \/ bridge_enter(c, CallbackPlans)
        \/ trampoline(c)
        \/ foreign_return(c)
        \/ notified_poll(c)
        \/ notified_wake(c)

\* The engine invokes a callback it planned to invoke, the foreign function
\* returns, and the runtime polls a task that can go on.
BridgeFairness ==
    \A c \in Calls :
        /\ WF_vars(trampoline(c))
        /\ WF_vars(foreign_return(c))
        /\ WF_vars(notified_poll(c))
        /\ WF_vars(notified_wake(c))

\* Concurrent bridged calls, every one awaited to its end.
SpecBridge == BridgeInit /\ [][BridgeNext]_vars /\ BridgeFairness

CancelNext ==
    \E c \in Calls :
        \/ bridge_enter(c, CallbackPlans)
        \/ trampoline(c)
        \/ foreign_return(c)
        \/ notified_poll(c)
        \/ notified_wake(c)
        \/ task_cancel(c)

\* Concurrent bridged calls whose futures the caller may drop.
SpecCancel == BridgeInit /\ [][CancelNext]_vars /\ BridgeFairness

DoubleNext ==
    \E c \in Calls :
        \/ bridge_enter(c, RepeatedPlans)
        \/ trampoline(c)
        \/ foreign_return(c)
        \/ notified_poll(c)
        \/ notified_wake(c)

\* Concurrent bridged calls against an engine that may invoke a callback
\* twice.
DoubleInit == RunningNode /\ FlightsIdle /\ StoreIdle /\ BridgeIdle /\ EventIdle
SpecDouble == DoubleInit /\ [][DoubleNext]_vars /\ BridgeFairness

\* ------------------------------------------------------------------ claims

\* C1: a Running-only operation reaches the engine only through a handle in
\* the Running phase, never through an Initialized handle; the node is the
\* one new() gave the handle, and the engine started it and has not stopped
\* or destroyed it since, unless the callback of a call whose future is gone
\* wrote the cell of a live call or woke it: then start() can return Ok for a
\* node the engine never started, and the handle is Running all the same.
C1_RunningOnlyInRunning ==
    lastCall.op \in RunningOnlyEngineOps =>
        /\ lastCall.tag = "Running"
        /\ lastCall.ptr = inst.ptr
        /\ ~strayed => lastCall.started

\* A Running-only operation reached the engine after a stop and a restart.
C1_Witness ==
    /\ lastCall.op \in RunningOnlyEngineOps
    /\ lastCall.started
    /\ ~strayed
    /\ cycles >= 1

\* C2: across alternations of successful start() and stop(), the handle keeps
\* the pointer and the configuration new() gave it, the next transition is
\* accepted, and version() is callable in both states (calls are accepted
\* while the process lives and the model can hold another future). version()
\* returns what the engine answered to it, Ok with the engine's text for a
\* success and Err with its message for a failure, unless the callback of a
\* call whose future is gone wrote the cell of a live call or woke it: a
\* version() woken so panics, or returns the answer to the other call.
C2_AlternationKeepsHandle ==
    /\ tag \in LiveTags =>
         /\ ptr = inst.ptr
         /\ ptr \in Handles
         /\ config = inst.config
         /\ (FreeFlights # {} /\ ~crashed) => ENABLED version
    /\ (tag = "Initialized" /\ ~Borrowed /\ FreeFlights # {} /\ ~crashed) =>
           ENABLED start
    /\ (tag = "Running" /\ ~Borrowed /\ FreeFlights # {} /\ ~crashed) =>
           ENABLED stop
    /\ (ret.op = "version" /\ said.tag = "Success" /\ ~strayed) =>
           ret.res = Ok(said.val)
    /\ (ret.op = "version" /\ said.tag = "Failure" /\ ~strayed) =>
           ret.res = Err(said.val)

\* version() succeeded on the Running handle of the third start.
C2_Witness ==
    /\ cycles >= 2
    /\ ~strayed
    /\ tag = "Running"
    /\ said = Success
    /\ ret = [op |-> "version", res |-> Ok("v")]

\* The methods of the handle, up to their await.
MethodCalls ==
    \/ version
    \/ start
    \/ stop
    \/ waku_destroy
    \/ listen_addresses
    \/ connect({None})
    \/ relay_publish_message
    \/ relay_subscribe
    \/ relay_unsubscribe
    \/ filter_subscribe
    \/ filter_unsubscribe
    \/ filter_unsubscribe_all
    \/ lightpush_publish_message
    \/ store_query(StoreArgs, MaxReqs)
    \/ set_event_callback
    \/ response_stream

\* C3: waku_destroy can be called on an Initialized and on a Running handle
\* (while the process lives and the model can hold another future). Once it
\* was called no method is callable any more, whatever becomes of the call.
\* Once it returned, with Ok or with Err, the pointer is the empty sentinel,
\* the destroy is the last call the engine received for the node and no
\* future of the handle is left. It returns, Ok for a success and Err for a
\* failure, whenever the engine answered it with one of the two, unless the
\* callback of a call whose future is gone wrote its cell or woke it: a
\* destroy that finds the missing-callback code in its cell panics inside
\* management::waku_destroy, before reset_ptr, and the pointer is not reset.
C3_DestroyIsTerminal ==
    /\ (tag \in LiveTags /\ ~Borrowed /\ FreeFlights # {} /\ ~crashed) =>
           ENABLED waku_destroy
    /\ lastCall.op = "waku_destroy" => ~ENABLED MethodCalls
    /\ (tag = "Destroyed" \/ (ret.op = "waku_destroy" /\ ret.res.kind \in {"Ok", "Err"})) =>
         /\ tag = "Destroyed"
         /\ ptr = NULL_PTR
         /\ lastCall.op = "waku_destroy"
         /\ lastCall.ptr = inst.ptr
         /\ ret.op = "waku_destroy"
         /\ \A s \in Flights : ~Held(s)
    /\ (ret.op = "waku_destroy" /\ said.tag = "Success" /\ ~strayed) =>
           ret.res = Ok("unit")
    /\ (ret.op = "waku_destroy" /\ said.tag = "Failure" /\ ~strayed) =>
           ret.res = Err(said.val)
    /\ (ret.op = "waku_destroy" /\ ret.res.kind = "Panic") =>
         /\ tag = "Panicked"
         /\ ptr = inst.ptr
         /\ said.tag = "MissingCallback" \/ strayed

\* The engine failed the destroy of a node that was never started.
C3_Witness ==
    /\ tag = "Destroyed"
    /\ ret.res.kind = "Err"
    /\ said.tag = "Failure"
    /\ ~strayed
    /\ lastCall.tag = "Initialized"
    /\ cycles = 0
    /\ ptr = NULL_PTR

\* C4: a relay method called with relay None or Some(false) returns the
\* configuration error, makes no foreign call and changes nothing; with
\* Some(true) it makes its foreign call and is not refused.
C4_RelayGate ==
    [][ /\ \A s \in Flights :
             (fl[s].st = "idle" /\ fl'[s].name \in RelayNames) =>
                 /\ config = Some(TRUE)
                 /\ fl'[s].op \in RelayEngineOps
                 /\ lastCall'.op = fl'[s].op
        /\ (config # Some(TRUE) /\ lastCall' # lastCall) =>
               lastCall'.op \notin RelayEngineOps
        /\ (ret' # ret /\ ret'.op \in RelayNames) =>
               IF config = Some(TRUE)
               THEN ret'.res # Err(RelayDisabledMsg)
               ELSE /\ ret'.res = Err(RelayDisabledMsg)
                    /\ UNCHANGED << tag, ptr, config, lastCall, fl, eng, inst,
                                    cycles, storeVars, restVars >> ]_vars

\* A relay method was refused on a node configured with relay Some(false).
C4_Witness ==
    /\ ret.op \in RelayNames
    /\ config = Some(FALSE)
    /\ ret.res = Err(RelayDisabledMsg)
    /\ lastCall.op \notin RelayEngineOps

\* The pages as a complete pagination: every page but the last carries a
\* cursor, the last carries none.
CompleteRun(pgs) ==
    /\ Len(pgs) >= 1
    /\ \A i \in 1..(Len(pgs) - 1) : pgs[i].cursor # None
    /\ pgs[Len(pgs)].cursor = None

RECURSIVE Rev(_)
Rev(s) == IF s = << >> THEN << >> ELSE Append(Rev(Tail(s)), Head(s))

\* The reverse of P1 ++ ... ++ Pn, page by page from the last.
RECURSIVE ReversedConcat(_)
ReversedConcat(pgs) ==
    IF pgs = << >> THEN << >>
    ELSE ReversedConcat(Tail(pgs)) \o Rev(Head(pgs).messages)

\* C10: when the engine answered n pages of which only the last has no
\* cursor, store_query made exactly n requests and returned Ok with the
\* reverse of the concatenation of the pages.
C10_ReversedAccumulation ==
    (sq_pc = "done" /\ CompleteRun(sq_pages)) =>
        /\ sq_ret = Ok(ReversedConcat(sq_pages))
        /\ Len(sq_reqs) = Len(sq_pages)

\* Pages [c,b] with a cursor, then [a] without: [a,b,c] after two requests.
C10_Witness ==
    /\ sq_pc = "done"
    /\ sq_pages = << Page(<<"c", "b">>, Some("h1")), Page(<<"a">>, None) >>
    /\ sq_ret = Ok(<<"a", "b", "c">>)
    /\ Len(sq_reqs) = 2

\* A call ended after the engine invoked its callback exactly once.
EndedOnce(c) == b_pc[c] = "done" /\ Len(e_sent[c]) = 1

\* C5: a call whose callback ran exactly once returns Ok when the callback
\* delivered Success (for waku_new, the context around the pointer the engine
\* returned to that call) and Err(m) when it delivered Failure(m) (for
\* waku_new, no context).
C5_EnvelopeToResult ==
    \A c \in Calls :
        EndedOnce(c) =>
            LET r == e_sent[c][1]
            IN  /\ r.tag = "Success" =>
                     b_out[c] = IF b_op[c] = "waku_new"
                                THEN Ok(EnginePtr(c))
                                ELSE Ok(r.val)
                /\ r.tag = "Failure" => b_out[c] = [kind |-> "Err", val |-> r.val]

\* One waku_new returned Err("e2"), the other Ok with its own context.
C5_Witness ==
    /\ EndedOnce(1) /\ b_op[1] = "waku_new"
    /\ e_sent[1][1] = Failure("e2") /\ b_out[1] = Err("e2")
    /\ EndedOnce(2) /\ b_op[2] = "waku_new"
    /\ e_sent[2][1] = Success /\ b_out[2] = Ok(EnginePtr(2))

\* The foreign function of call c returned and the engine will never invoke
\* the callback.
ReturnedWithoutCallback(c) == b_pc[c] \in {"await", "parked"} /\ e_plan[c] = 0

\* C6: a call whose foreign function returned without the callback ever being
\* invoked ends in the fatal missing-callback condition.
C6_MissingCallbackIsFatal ==
    \A c \in Calls : ReturnedWithoutCallback(c) ~> (b_out[c] = Panic)

\* C7: a call whose callback is invoked exactly once is resumed, and only
\* after the callback wrote the cell, whether the callback ran inside the
\* foreign call or after the task was parked.
C7_ResumedAfterCallback ==
    /\ [](\A c \in Calls :
            b_pc[c] = "done" =>
                /\ Len(e_sent[c]) >= 1
                /\ b_result[c] = e_sent[c][1])
    /\ \A c \in Calls : (b_pc[c] # "idle" /\ e_plan[c] = 1) ~> (b_pc[c] = "done")

\* Both orders at once: the callback of call 1 ran inside the foreign call,
\* before its task waits, and left a permit; the callback of call 2 ran after
\* its task was parked, which is the only way a parked task holds a permit.
C7_Witness ==
    /\ b_pc[1] = "ffi" /\ e_plan[1] = 1 /\ Len(e_sent[1]) = 1 /\ b_permit[1]
    /\ b_pc[2] = "parked" /\ e_plan[2] = 1 /\ Len(e_sent[2]) = 1 /\ b_permit[2]

\* The result the callback of call c delivered, as the call has to return it.
OwnResult(c) ==
    LET r == e_sent[c][1]
    IN  CASE r.tag = "MissingCallback" -> Panic
          [] r.tag = "Failure" -> Err(r.val)
          [] OTHER -> IF b_op[c] = "waku_new" THEN Ok(EnginePtr(c))
                      ELSE Ok(r.val)

\* C8: with several calls in flight and their callbacks run in any order,
\* the cell of a call holds what its own callback wrote (the default before),
\* and the call returns the result of its own callback.
C8_NoCrossWiring ==
    \A c \in Calls :
        /\ b_alive[c] =>
             b_result[c] = IF e_sent[c] = << >> THEN MissingCallback
                           ELSE e_sent[c][1]
        /\ EndedOnce(c) => b_out[c] = OwnResult(c)

\* Two calls on the node's context are in flight together, the callbacks of
\* both have run with different envelopes, and the first to be resumed has
\* returned its own.
C8_Witness ==
    /\ b_op[1] = "waku_version" /\ b_op[2] = "waku_version"
    /\ b_pc[1] = "parked" /\ b_permit[1] /\ b_result[1] = Failure("e1")
    /\ EndedOnce(2) /\ e_sent[2] = << Success >> /\ b_out[2] = Ok("v")

\* C9: the callback of a call whose future was dropped never writes into a
\* freed frame.
C9_NoWriteAfterDrop == deadWrites = {}

\* C11: when the engine fails a page request, at whatever page, the failed
\* request is the last one sent; store_query, once resumed, is over with
\* exactly that error, nothing of the pages accumulated before is returned,
\* and no further request and no further answer can follow.
C11_PageFailureAborts ==
    sq_answer.tag = "Failure" =>
        /\ sq_pc \in {"answered", "done"}
        /\ Len(sq_reqs) = Len(sq_pages) + 1
        /\ sq_pc = "answered" =>
              /\ sq_ret = Pending
              /\ ~crashed => ENABLED store_query_next(MaxReqs)
        /\ sq_pc = "done" =>
              /\ sq_ret.kind = "Err"
              /\ sq_ret.val = sq_answer.val
              /\ ret = [op |-> "store_query", res |-> sq_ret]
              /\ ~ENABLED store_query_next(MaxReqs)
              /\ ~ENABLED store_query_callback(AllPages)

\* A page [a, b] with a cursor, then a failure on the second request.
C11_Witness ==
    /\ sq_pc = "done"
    /\ sq_answer = Failure("e2")
    /\ sq_pages = << Page(<<"a", "b">>, Some("h1")) >>
    /\ Len(sq_reqs) = 2
    /\ sq_ret.kind = "Err"
    /\ sq_ret.val = "e2"

\* The arguments of store_query that every page request repeats.
RepeatedFields ==
    { "pubsub_topic", "content_topics", "time_start", "time_end",
      "include_data", "peer_addr", "timeout_millis" }

\* C18: the first page request of a store_query carries no cursor, every
\* later one the cursor of the response just before it; all of them carry the
\* caller's topics, time range, include-data flag, peer address and timeout,
\* and the forward flag true.
C18_RequestChain ==
    \A i \in 1..Len(sq_reqs) :
        /\ sq_reqs[i].pagination_cursor =
               IF i = 1 THEN None ELSE sq_pages[i - 1].cursor
        /\ sq_reqs[i].pagination_forward = TRUE
        /\ \A f \in RepeatedFields :
               /\ sq_reqs[i][f] = sq_args[f]
               /\ sq_reqs[i][f] = sq_reqs[1][f]

\* The engine handed out h1 and then h2: the requests carried none, h1, h2.
C18_Witness ==
    /\ Len(sq_reqs) = 3
    /\ Len(sq_pages) >= 2
    /\ sq_pages[1].cursor = Some("h1")
    /\ sq_pages[2].cursor = Some("h2")
    /\ sq_reqs[1].pagination_cursor = None
    /\ sq_reqs[2].pagination_cursor = Some("h1")
    /\ sq_reqs[3].pagination_cursor = Some("h2")
    /\ ~sq_args.include_data

\* C19: store_query returns only after the engine answered with a failure or
\* with a page without a cursor; after a page with a cursor, repeated or
\* not, the resumed loop has sent its next request with that cursor and
\* waits for the answer, at any count of pages below the bound of the model.
C19_EndsOnlyWithEngine ==
    /\ sq_ret.kind \in {"Ok", "Err"} =>
           /\ sq_pc = "done"
           /\ \/ sq_answer.tag = "Failure"
              \/ (sq_answer.tag = "Page" /\ sq_answer.cursor = None)
    /\ (sq_answer.tag = "Failure" \/ (sq_answer.tag = "Page" /\ sq_answer.cursor = None)) =>
           IF sq_pc = "answered"
           THEN ~crashed => ENABLED store_query_next(MaxChain)
           ELSE sq_pc = "done" /\ sq_ret.kind \in {"Ok", "Err"}
    /\ (sq_answer.tag = "Page" /\ sq_answer.cursor # None) =>
           IF sq_pc = "answered"
           THEN (Len(sq_reqs) < MaxChain /\ ~crashed) =>
                    ENABLED store_query_next(MaxChain)
           ELSE /\ sq_pc = "sent"
                /\ sq_cursor = sq_answer.cursor
                /\ sq_reqs[Len(sq_reqs)].pagination_cursor = sq_answer.cursor
                /\ Len(sq_reqs) = Len(sq_pages) + 1

\* The engine answered h1 three times over: the loop sent h1 again and
\* waits for its next page.
C19_Witness ==
    /\ Len(sq_pages) = 2
    /\ \A i \in 1..2 : sq_pages[i].cursor = Some("h1")
    /\ sq_reqs[3].pagination_cursor = Some("h1")
    /\ sq_pc = "answered"
    /\ sq_answer.tag = "Page"
    /\ sq_answer.cursor = Some("h1")

\* C17: after a start() the engine failed, the caller holds the error and no
\* Running handle, the start was the last call the engine received, and
\* waku_destroy can still be called on the node.
C17_FailedStartStillDestroyable ==
    (ret.op = "start" /\ ret.res.kind = "Err") =>
        /\ tag # "Running"
        /\ lastCall.op = "waku_start"
        /\ engLive
        /\ ENABLED waku_destroy

\* The millisecond count of d is above i32::MAX.
ExceedsI32(d) ==
    \/ d.secs > 2147483
    \/ (d.secs = 2147483 /\ d.nanos >= 648000000)

\* C15: the timeout the engine receives from connect is within 0..2^31-1: 0
\* for an absent or zero duration, the millisecond count when it fits, and
\* exactly 2^31-1 when the count is larger; on every case of the table it is
\* the value the table gives.
C15_ConnectTimeoutClamped ==
    /\ conn_ms \in 0..2147483647
    /\ \A c \in TimeoutCases : conn_timeout = c[1] => conn_ms = c[2]
    /\ (conn_timeout = None \/ conn_timeout = Some(Duration(0, 0))) => conn_ms = 0
    /\ (conn_timeout # None /\ ExceedsI32(conn_timeout[1])) => conn_ms = 2147483647
    /\ (conn_timeout # None /\ ~ExceedsI32(conn_timeout[1])) =>
           /\ conn_ms \div 1000 = conn_timeout[1].secs
           /\ conn_ms % 1000 = conn_timeout[1].nanos \div 1000000

\* The engine failed a connect whose timeout was 2^32 milliseconds, a count
\* whose low 32 bits are 0: it had received 2^31-1.
C15_Witness ==
    /\ lastCall.op = "waku_connect"
    /\ ret = [op |-> "connect", res |-> Err("e1")]
    /\ conn_timeout = Some(Duration(4294967, 296000000))
    /\ conn_ms = 2147483647

\* C16: a call whose callback the engine invokes more than once returns the
\* result of the first invocation, and no invocation ends the process.
C16_FirstCallbackWins ==
    /\ ~crashed
    /\ \A c \in Calls :
          (b_pc[c] = "done" /\ Len(e_sent[c]) >= 1) => b_out[c] = OwnResult(c)

\* The items stream s was given so far: those its consumer took, then those
\* waiting in its channel. For a closure, the events it was called with.
Got(s) == ev_recv[s] \o ev_chan[s]

\* The indices at which event number n of producer p stands in q.
Places(q, p, n) ==
    {i \in 1..Len(q) : q[i].tag = "Success" /\ q[i].val = << p, n >>}

\* C12: response_stream never returns an error; a stream whose registration
\* failed is given exactly one item, the Failure carrying the registration
\* error, and its consumer can take it.
C12_RegistrationFailureInStream ==
    /\ ret.op = "response_stream" => ret.res.kind = "Ok"
    /\ \A s \in Sinks :
          (ev_kind[s] = "stream" /\ ev_reg[s].kind = "Err") =>
              /\ Len(Got(s)) = 1
              /\ Got(s)[1].tag = "Failure"
              /\ Got(s)[1].val = ev_reg[s].val
              /\ (ev_chan[s] # << >> /\ ~crashed) => ENABLED stream_next(s)

\* The first stream is registered and was sent the one event the engine
\* fired; the registration of the second failed with e2, and its consumer
\* took the Failure carrying e2 and nothing else.
C12_Witness ==
    /\ ret.op = "response_stream"
    /\ ev_kind[1] = "stream" /\ ev_reg[1] = Ok("unit")
    /\ ev_kind[2] = "stream" /\ ev_reg[2] = Err("e2")
    /\ Len(Got(1)) = 1 /\ Got(1)[1].tag = "Success"
    /\ ev_recv[2] = << Failure("e2") >>
    /\ ev_chan[2] = << >>

\* The events fired through the callback of sink s while the context held it.
FiredInto(s) == {f \in ev_fired : f.ctx /\ ev_regs[f.gen] = s}

\* C13: a registered stream whose consumer holds it was given every event
\* fired through its callback exactly once and nothing else (k events, k
\* items), the events of one producer in the order of their numbers, and an
\* item waiting in the channel can be taken.
C13_EventsOnceInOrder ==
    \A s \in Sinks :
        (ev_kind[s] = "stream" /\ ev_reg[s].kind = "Ok" /\ ev_rx[s]) =>
            LET q == Got(s)
            IN  /\ Len(q) = Cardinality(FiredInto(s))
                /\ \A f \in FiredInto(s) : Cardinality(Places(q, f.prod, f.n)) = 1
                /\ \A i, j \in 1..Len(q) :
                      (i < j /\ q[i].val[1] = q[j].val[1]) => q[i].val[2] < q[j].val[2]
                /\ ev_chan[s] # << >> => ENABLED stream_next(s)

\* Three events, two of producer 2 around one of producer 1: the consumer of
\* the registered stream took exactly these three, in this order.
C13_Witness ==
    /\ ev_kind[1] = "stream" /\ ev_slot = 1
    /\ Cardinality(ev_fired) = 3
    /\ ev_chan[1] = << >>
    /\ ev_recv[1] = << Event(2, 1), Event(1, 1), Event(2, 2) >>

\* C14: no stream returned by response_stream is ever told that it is
\* complete, whatever became of its registration, of the slot and of the
\* node.
C14_StreamNeverCompletes == \A s \in Sinks : ~ev_ended[s]

\* C20: the slot holds the sink of the last registration that succeeded, and
\* an event fired after k registrations was given to the sink of the k-th
\* and to no other sink.
C20_SingleSlotLastWins ==
    /\ ev_regs # << >> => ev_slot = ev_regs[Len(ev_regs)]
    /\ \A f \in ev_fired :
          f.ctx =>
              \A s \in Sinks :
                  IF s = ev_regs[f.gen]
                  THEN Cardinality(Places(Got(s), f.prod, f.n)) = 1
                  ELSE Places(Got(s), f.prod, f.n) = {}

\* response_stream twice, then an event: the second stream has it, the
\* first has nothing.
C20_Witness ==
    /\ ev_regs = << 1, 2 >>
    /\ ev_kind[1] = "stream" /\ ev_kind[2] = "stream"
    /\ ev_fired = {[prod |-> 1, n |-> 1, gen |-> 2, ctx |-> TRUE]}
    /\ Got(1) = << >>
    /\ Got(2) = << Event(1, 1) >>

====
